---- MODULE Spec2Model ----
(***************************************************************************)
(* Booking lifecycle and capacity reconciliation of campus_stay            *)
(* (src/app.py, src/models.py, src/forms.py).                              *)
(*                                                                         *)
(* The database holds the committed rows.  Every HTTP request runs in its  *)
(* own SQLAlchemy session: what a handler has loaded is a private copy     *)
(* (the fields of req[r]), and its db.session.commit() writes the columns  *)
(* it changed as absolute values.  A handler is therefore split where it   *)
(* commits, one step for what it reads and one for each commit; requests   *)
(* interleave between the steps.  Money is counted in cents.               *)
(***************************************************************************)
EXTENDS Integers, FiniteSets, Sequences, TLC

\* ---------------------------------------------------------------- bounds
MaxUnits == 1
MaxUsers == 1
MaxBookings == 2
MaxReq == 2
MaxCap == 2
MaxOcc == 2
MaxAccounts == 3

\* ------------------------------------------------------ program constants
SemesterMonths == 5
AnnualMonths == 10
MinChargeCents == 50
MinCapacity == 1
MinOccupancy == 0

UnitIds == 1..MaxUnits
UserIds == 1..MaxUsers
BookingIds == 1..MaxBookings
Reqs == 1..MaxReq

\* Primary keys of the user table (the variable users).  The booking handlers above only carry
\* the id of the logged-in user (UserIds).
AccountIds == 1..MaxAccounts

\* Checkout session ids minted by the provider; 0 is a missing/NULL id.
SessionIds == 1..MaxBookings
NoSession == 0

\* Monthly prices (cents) an administrator enters; 0 fails DataRequired.
Prices == {0, 5, 100}

\* request.form.get('duration'): the two choices of BookingForm, any other
\* string, or no field at all.
Durations == {"semester", "annual", "weekly", "none"}

VARIABLES accommodation, booking, booking_seq, stripe_session, req,
          review, favorite, users, tables_created, admin_password

vars == <<accommodation, booking, booking_seq, stripe_session, req,
          review, favorite, users, tables_created, admin_password>>

\* ------------------------------------------------------------------ rows
NoAccommodation ==
    [exists |-> FALSE, price_per_month |-> 0, capacity |-> 0,
     current_occupancy |-> 0, is_active |-> FALSE]

NoBooking ==
    [exists |-> FALSE, user_id |-> 0, accommodation_id |-> 0,
     duration |-> "none", months |-> 0, total_price |-> 0,
     status |-> "none", stripe_session_id |-> NoSession]

\* User.password_hash is NoHash until set_password has run.
NoHash == <<>>

NoUser ==
    [exists |-> FALSE, email |-> "", student_number |-> "",
     password_hash |-> NoHash, is_admin |-> FALSE]

\* app.config['ADMIN_EMAIL'], and the student number seed_admin gives the
\* administrator.
ADMIN_EMAIL == "admin@campusstay.com"
ADMIN_STUDENT_NUMBER == "00000000"

\* Values of the environment variable ADMIN_PASSWORD; the first is the
\* default of config.py.
AdminPasswords == {"admin123", "changed"}

\* What a visitor types into RegistrationForm.
Emails == {ADMIN_EMAIL, "s1@campus", "s2@campus"}
StudentNumbers == {ADMIN_STUDENT_NUMBER, "11111111", "22222222"}
UserPassword == "secret"

Idle ==
    [pc |-> "idle", session_id |-> NoSession, booking_id |-> 0,
     accommodation_id |-> 0, current_occupancy |-> 0, capacity |-> 0,
     user_id |-> 0, in_transaction |-> FALSE]

\* A handler that has returned leaves nothing behind: its worker is Idle
\* again.  What it answered is given by the ...Response operators.
\* in_transaction: the request's session has a database transaction open.  A
\* SELECT begins one and db.session.commit() ends it; the commit expires the
\* loaded rows, so reading a column of a row after the commit begins the next.

\* Requests are taken by the lowest free worker.
Free(r) == req[r].pc = "idle" /\ \A q \in Reqs : q < r => req[q].pc # "idle"

\* Accommodation.is_full
is_full_Strict(acc) == acc.current_occupancy > acc.capacity

is_full(acc) == acc.current_occupancy >= acc.capacity

\* Booking.query.filter_by(stripe_session_id=session_id).first()
BookingBySession_Any(sid) == {b \in BookingIds : booking[b].exists}

BookingBySession(sid) ==
    {b \in BookingIds : booking[b].exists /\ booking[b].stripe_session_id = sid}

\* Number of paid bookings of a unit
PaidBookings(u) ==
    {b \in BookingIds : booking[b].exists /\ booking[b].accommodation_id = u
                        /\ booking[b].status = "paid"}

Init ==
    /\ accommodation = [u \in UnitIds |-> NoAccommodation]
    /\ booking = [b \in BookingIds |-> NoBooking]
    /\ booking_seq = 0
    /\ stripe_session = [s \in SessionIds |-> "none"]
    /\ req = [r \in Reqs |-> Idle]
    /\ review = [p \in UserIds \X UnitIds |-> 0]
    /\ favorite = [p \in UserIds \X UnitIds |-> 0]
    /\ users = [u \in AccountIds |-> NoUser]
    /\ tables_created = FALSE
    /\ admin_password = "admin123"

\* ------------------------------------------------------- payment provider
\* The customer completes the hosted checkout of an open session.  The
\* session stays open after the cancel_url was visited.
StripePay(s) ==
    /\ stripe_session[s] = "unpaid"
    /\ stripe_session' = [stripe_session EXCEPT ![s] = "paid"]
    /\ UNCHANGED <<accommodation, booking, booking_seq, req, review, favorite,
                 users, tables_created, admin_password>>

\* The provider expires an open session nobody paid: the payment failed.  Its
\* payment_status stays 'unpaid' for good.
StripeExpire(s) ==
    /\ stripe_session[s] = "unpaid"
    /\ stripe_session' = [stripe_session EXCEPT ![s] = "expired"]
    /\ UNCHANGED <<accommodation, booking, booking_seq, req, review, favorite,
                 users, tables_created, admin_password>>

\* session.payment_status == 'paid' after Session.retrieve(session_id)
SessionPaid_Any(sid) == stripe_session[sid] # "none"

SessionPaid(sid) == stripe_session[sid] = "paid"

\* --------------------------------------------------------- administration
\* Both handlers are one step: they read nothing they write back, and commit
\* the form's values once.  The caller is a logged-in administrator.
\* AccommodationForm.validate_on_submit: DataRequired rejects a falsy value.
AccommodationFormValid(price, cap, occ) ==
    /\ price # 0 /\ price >= 0
    /\ cap # 0 /\ cap >= MinCapacity
    /\ occ >= MinOccupancy

FormCapacities == 0..MaxCap
FormOccupancies == -1..MaxCap

admin_new_accommodation(price, cap, occ) ==
    /\ \E u \in UnitIds :
         /\ ~accommodation[u].exists
         /\ \A v \in UnitIds : v < u => accommodation[v].exists
         /\ IF AccommodationFormValid(price, cap, occ)
            THEN accommodation' = [accommodation EXCEPT ![u] =
                     [exists |-> TRUE, price_per_month |-> price,
                      capacity |-> cap, current_occupancy |-> occ,
                      is_active |-> TRUE]]
            ELSE UNCHANGED accommodation
    /\ UNCHANGED <<booking, booking_seq, stripe_session, req, review, favorite,
                 users, tables_created, admin_password>>

admin_edit_accommodation(u, price, cap, occ) ==
    /\ accommodation[u].exists
    /\ IF AccommodationFormValid(price, cap, occ)
       THEN accommodation' = [accommodation EXCEPT
                ![u].price_per_month = price,
                ![u].capacity = cap,
                ![u].current_occupancy = occ]
       ELSE UNCHANGED accommodation
    /\ UNCHANGED <<booking, booking_seq, stripe_session, req, review, favorite,
                 users, tables_created, admin_password>>

\* db.session.delete(acc): the unit goes with its bookings, reviews and
\* favourites (cascade='all, delete-orphan').  Sessions opened at the provider
\* stay there.
\* (admin_new_accommodation may hand the id out again, as a database
\* without a sequence does.)
admin_delete_accommodation(u) ==
    /\ accommodation[u].exists
    /\ accommodation' = [accommodation EXCEPT ![u] = NoAccommodation]
    /\ booking' = [b \in BookingIds |->
                     IF booking[b].exists /\ booking[b].accommodation_id = u
                     THEN NoBooking ELSE booking[b]]
    /\ review' = [p \in UserIds \X UnitIds |->
                    IF p[2] = u THEN 0 ELSE review[p]]
    /\ favorite' = [p \in UserIds \X UnitIds |->
                      IF p[2] = u THEN 0 ELSE favorite[p]]
    /\ UNCHANGED <<booking_seq, stripe_session, req,
                 users, tables_created, admin_password>>

\* ------------------------------------------------------------------- book
Months(duration) == IF duration = "annual" THEN AnnualMonths ELSE SemesterMonths

\* if total_price < 0.5
PriceTooLow_Negative(total_price) == total_price < 0

PriceTooLow(total_price) == total_price < MinChargeCents

\* First half of book: pre-check, price floor, INSERT and commit.
\* After the commit the handler reads booking.id, accommodation.title and
\* accommodation.room_type for the provider call: a transaction is open again.
BookCreate(r, user, a, duration) ==
    /\ Free(r)
    /\ LET acc == accommodation[a]
           months == Months(duration)
           total_price == acc.price_per_month * months
           id == booking_seq + 1
       IN  IF ~acc.exists
           THEN /\ req' = [req EXCEPT ![r] = Idle]
                /\ UNCHANGED <<booking, booking_seq>>
           ELSE IF is_full(acc)
           THEN /\ req' = [req EXCEPT ![r] = Idle]
                /\ UNCHANGED <<booking, booking_seq>>
           ELSE IF PriceTooLow(total_price)
           THEN /\ req' = [req EXCEPT ![r] = Idle]
                /\ UNCHANGED <<booking, booking_seq>>
           ELSE IF duration = "none"
           THEN \* duration is NOT NULL: the INSERT fails, outer except
                /\ req' = [req EXCEPT ![r] = Idle]
                /\ UNCHANGED <<booking, booking_seq>>
           ELSE /\ booking_seq < MaxBookings
                /\ booking' = [booking EXCEPT ![id] =
                       [exists |-> TRUE, user_id |-> user,
                        accommodation_id |-> a, duration |-> duration,
                        months |-> months, total_price |-> total_price,
                        status |-> "approved",
                        stripe_session_id |-> NoSession]]
                /\ booking_seq' = id
                /\ req' = [req EXCEPT ![r] =
                       [Idle EXCEPT !.in_transaction = TRUE, !.pc = "book_stripe", !.booking_id = id,
                                    !.accommodation_id = a]]
    /\ UNCHANGED <<accommodation, stripe_session, review, favorite,
                 users, tables_created, admin_password>>

\* The flash book answers with when it returns without a booking.
BookCreateResponse(a, duration) ==
    LET acc == accommodation[a]
    IN  IF ~acc.exists THEN "booking_failed"
        ELSE IF is_full(acc) THEN "fully_booked"
        ELSE IF PriceTooLow(acc.price_per_month * Months(duration))
        THEN "invalid_amount"
        ELSE IF duration = "none" THEN "booking_failed"
        ELSE "pending"

\* Second half of book: the provider call, then the reference is stored, or
\* on a provider error the booking row is deleted.
BookStripe_KeepBooking(r, provider_ok) ==
    /\ req[r].pc = "book_stripe"
    /\ LET id == req[r].booking_id
       IN  IF provider_ok
           THEN /\ stripe_session' = [stripe_session EXCEPT ![id] = "unpaid"]
                /\ booking' = IF booking[id].exists
                              THEN [booking EXCEPT ![id].stripe_session_id = id]
                              ELSE booking
                /\ req' = [req EXCEPT ![r] = Idle]
           ELSE /\ req' = [req EXCEPT ![r] = Idle]
                /\ UNCHANGED <<booking, stripe_session>>
    /\ UNCHANGED <<accommodation, booking_seq, review, favorite,
                 users, tables_created, admin_password>>

BookStripe(r, provider_ok) ==
    /\ req[r].pc = "book_stripe"
    /\ LET id == req[r].booking_id
       IN  IF provider_ok
           THEN /\ stripe_session' = [stripe_session EXCEPT ![id] = "unpaid"]
                /\ booking' = IF booking[id].exists
                              THEN [booking EXCEPT ![id].stripe_session_id = id]
                              ELSE booking
                /\ req' = [req EXCEPT ![r] = Idle]
           ELSE /\ booking' = [booking EXCEPT ![id] = NoBooking]
                /\ req' = [req EXCEPT ![r] = Idle]
                /\ UNCHANGED stripe_session
    /\ UNCHANGED <<accommodation, booking_seq, review, favorite,
                 users, tables_created, admin_password>>

\* -------------------------------------------------------- payment_success
\* First half of payment_success: the provider is asked about session_id,
\* the booking is found by its stored reference and its unit is loaded.
\* (A session that is paid stays paid, so the provider's answer and the two
\* SELECTs that follow it are taken in one step.)
PaymentSuccessLoad(r, session_id, provider_ok) ==
    /\ Free(r)
    /\ IF session_id = NoSession
       THEN UNCHANGED req
       ELSE IF ~provider_ok \/ stripe_session[session_id] = "none"
       THEN UNCHANGED req
       ELSE IF ~SessionPaid(session_id)
       THEN UNCHANGED req
       ELSE LET found == BookingBySession(session_id)
            IN  IF found = {}
                THEN UNCHANGED req
                ELSE \E b \in found :
                       LET a == booking[b].accommodation_id
                       IN  /\ accommodation[a].current_occupancy < MaxOcc
                           /\ req' = [req EXCEPT ![r] =
                                [Idle EXCEPT
                                   !.in_transaction = TRUE,
                                   !.pc = "ps_commit",
                                   !.session_id = session_id,
                                   !.booking_id = b,
                                   !.accommodation_id = a,
                                   !.current_occupancy =
                                       accommodation[a].current_occupancy,
                                   !.capacity = accommodation[a].capacity]]
    /\ UNCHANGED <<accommodation, booking, booking_seq, stripe_session, review, favorite,
                 users, tables_created, admin_password>>

\* booking.status = 'paid'; current_occupancy += 1; is_active; commit.
PaymentSuccessCommit(r) ==
    /\ req[r].pc = "ps_commit"
    /\ LET b == req[r].booking_id
           a == req[r].accommodation_id
           occ == req[r].current_occupancy + 1
       IN  IF booking[b].exists /\ accommodation[a].exists
           THEN /\ booking' = [booking EXCEPT ![b].status = "paid"]
                /\ accommodation' = [accommodation EXCEPT
                       ![a].current_occupancy = occ,
                       ![a].is_active = IF occ >= req[r].capacity
                                        THEN FALSE
                                        ELSE accommodation[a].is_active]
           ELSE \* the rows were deleted meanwhile: the UPDATE matches no
                \* row, the except branch answers
                UNCHANGED <<booking, accommodation>>
    /\ req' = [req EXCEPT ![r] = Idle]
    /\ UNCHANGED <<booking_seq, stripe_session, review, favorite,
                 users, tables_created, admin_password>>

\* What payment_success answers once it has committed: the success page.
PaymentSuccessCommitResponse(r) == "payment_success"

\* What payment_success answers when it goes no further than its lookups.
PaymentSuccessLoadResponse(session_id, provider_ok) ==
    IF session_id = NoSession THEN "invalid_session"
    ELSE IF ~provider_ok \/ stripe_session[session_id] = "none"
    THEN "verification_failed"
    ELSE IF ~SessionPaid(session_id) THEN "redirect_index"
    ELSE IF BookingBySession(session_id) = {} THEN "redirect_index"
    ELSE "pending"

\* --------------------------------------------------------- payment_cancel
PaymentCancelRead(r, booking_id) ==
    /\ Free(r)
    /\ IF ~booking[booking_id].exists
       THEN req' = [req EXCEPT ![r] = Idle]
       ELSE IF booking[booking_id].status = "approved"
       THEN req' = [req EXCEPT ![r] =
                [Idle EXCEPT !.in_transaction = TRUE, !.pc = "pc_commit", !.booking_id = booking_id]]
       ELSE req' = [req EXCEPT ![r] = Idle]
    /\ UNCHANGED <<accommodation, booking, booking_seq, stripe_session, review, favorite,
                 users, tables_created, admin_password>>

\* What payment_cancel answers when it writes nothing: the cancel page, or
\* the error redirect when get_or_404 finds no booking.
PaymentCancelReadResponse(booking_id) ==
    IF booking[booking_id].exists THEN "payment_cancelled" ELSE "cancel_error"

PaymentCancelCommit(r) ==
    /\ req[r].pc = "pc_commit"
    /\ LET b == req[r].booking_id
       IN  IF booking[b].exists
           THEN /\ booking' = [booking EXCEPT ![b].status = "cancelled"]
                /\ req' = [req EXCEPT ![r] = Idle]
           ELSE \* the row was deleted meanwhile: the UPDATE matches no row
                /\ req' = [req EXCEPT ![r] = Idle]
                /\ UNCHANGED booking
    /\ UNCHANGED <<accommodation, booking_seq, stripe_session, review, favorite,
                 users, tables_created, admin_password>>

\* ---------------------------------------------------------- submit_review
\* review[<<user, a>>] and favorite[<<user, a>>] count the rows of the pair;
\* the tables' unique constraints are what the INSERTs below run into.

\* accommodation_detail: has_booked
has_booked(user, a) ==
    \E b \in BookingIds : /\ booking[b].exists
                          /\ booking[b].user_id = user
                          /\ booking[b].accommodation_id = a
                          /\ booking[b].status = "paid"

\* accommodation_detail: can_review = has_booked and not existing_review
can_review_Booked(user, a) == has_booked(user, a)

can_review(user, a) == has_booked(user, a) /\ review[<<user, a>>] = 0

\* First half of submit_review: the two SELECTs and the form's validation.
SubmitReviewCheck(r, user, a, form_valid) ==
    /\ Free(r)
    /\ IF ~has_booked(user, a)
       THEN req' = [req EXCEPT ![r] = Idle]
       ELSE IF review[<<user, a>>] > 0
       THEN req' = [req EXCEPT ![r] = Idle]
       ELSE IF ~form_valid
       THEN req' = [req EXCEPT ![r] = Idle]
       ELSE req' = [req EXCEPT ![r] =
                [Idle EXCEPT !.in_transaction = TRUE, !.pc = "review_insert", !.user_id = user,
                             !.accommodation_id = a]]
    /\ UNCHANGED <<accommodation, booking, booking_seq, stripe_session,
                   review, favorite,
                 users, tables_created, admin_password>>

\* The flash submit_review answers with when it inserts nothing.
SubmitReviewCheckResponse(user, a, form_valid) ==
    IF ~has_booked(user, a) THEN "only_booked_and_paid"
    ELSE IF review[<<user, a>>] > 0 THEN "already_reviewed"
    ELSE IF ~form_valid THEN "no_message"
    ELSE "pending"

\* Second half of submit_review: INSERT and commit.  unique_review makes the
\* INSERT of a second row fail; the except branch rolls back.
SubmitReviewCommit(r) ==
    /\ req[r].pc = "review_insert"
    /\ LET p == <<req[r].user_id, req[r].accommodation_id>>
       IN  IF review[p] > 0
           THEN UNCHANGED review
           ELSE review' = [review EXCEPT ![p] = 1]
    /\ req' = [req EXCEPT ![r] = Idle]
    /\ UNCHANGED <<accommodation, booking, booking_seq, stripe_session,
                   favorite,
                 users, tables_created, admin_password>>

SubmitReviewCommitResponse(r) ==
    IF review[<<req[r].user_id, req[r].accommodation_id>>] > 0
    THEN "failed_to_submit"
    ELSE "review_submitted"

\* -------------------------------------------------------- toggle_favorite
\* First half of toggle_favorite: the SELECT decides between DELETE and
\* INSERT.
ToggleFavoriteRead(r, user, a) ==
    /\ Free(r)
    /\ req' = [req EXCEPT ![r] =
          [Idle EXCEPT !.in_transaction = TRUE, !.pc = IF favorite[<<user, a>>] > 0
                              THEN "fav_delete" ELSE "fav_insert",
                       !.user_id = user, !.accommodation_id = a]]
    /\ UNCHANGED <<accommodation, booking, booking_seq, stripe_session,
                   review, favorite,
                 users, tables_created, admin_password>>

\* Whether the INSERT of a Favorite row raises: unique_favorite is violated,
\* or the unit does not exist and the database enforces the foreign key.
FavoriteInsertFails_NoUnique(p, fk_enforced) ==
    ~accommodation[p[2]].exists /\ fk_enforced

FavoriteInsertFails(p, fk_enforced) ==
    \/ favorite[p] > 0
    \/ ~accommodation[p[2]].exists /\ fk_enforced

\* Second half of toggle_favorite: DELETE or INSERT, and commit.  A DELETE
\* that matches no row any more changes nothing; a failed INSERT is rolled
\* back by the except branch.
ToggleFavoriteCommit(r, fk_enforced) ==
    /\ req[r].pc \in {"fav_delete", "fav_insert"}
    /\ LET p == <<req[r].user_id, req[r].accommodation_id>>
       IN  IF req[r].pc = "fav_delete"
           THEN favorite' = [favorite EXCEPT ![p] = IF @ > 0 THEN @ - 1 ELSE @]
           ELSE IF FavoriteInsertFails(p, fk_enforced)
           THEN UNCHANGED favorite
           ELSE favorite' = [favorite EXCEPT ![p] = @ + 1]
    /\ req' = [req EXCEPT ![r] = Idle]
    /\ UNCHANGED <<accommodation, booking, booking_seq, stripe_session,
                   review,
                 users, tables_created, admin_password>>

\* The JSON status toggle_favorite answers with.
ToggleFavoriteCommitResponse(r, fk_enforced) ==
    IF req[r].pc = "fav_delete" THEN "removed"
    ELSE IF FavoriteInsertFails(<<req[r].user_id, req[r].accommodation_id>>,
                                fk_enforced)
    THEN "error"
    ELSE "added"

\* Everything but the administration: the provider and the three handlers.
Requests ==
    \/ \E s \in SessionIds : StripePay(s)
    \/ \E r \in Reqs, user \in UserIds, a \in UnitIds, d \in Durations :
         BookCreate(r, user, a, d)
    \/ \E r \in Reqs, ok \in BOOLEAN : BookStripe(r, ok)
    \/ \E r \in Reqs, s \in SessionIds \cup {NoSession}, ok \in BOOLEAN :
         PaymentSuccessLoad(r, s, ok)
    \/ \E r \in Reqs : PaymentSuccessCommit(r)
    \/ \E r \in Reqs, b \in BookingIds : PaymentCancelRead(r, b)
    \/ \E r \in Reqs : PaymentCancelCommit(r)

NewAccommodation ==
    \E p \in Prices, c \in FormCapacities, o \in FormOccupancies :
        admin_new_accommodation(p, c, o)

EditAccommodation ==
    \E u \in UnitIds, p \in Prices, c \in FormCapacities,
       o \in FormOccupancies : admin_edit_accommodation(u, p, c, o)

Next == NewAccommodation \/ EditAccommodation \/ Requests

Spec == Init /\ [][Next]_vars

\* The behaviours in which no unit is corrected after its creation.
NextNoCorrection == NewAccommodation \/ Requests

SpecNoCorrection == Init /\ [][NextNoCorrection]_vars

\* The same, with a provider that lets unpaid sessions expire.
Expiry == \E s \in SessionIds : StripeExpire(s)

NextExpiry == NewAccommodation \/ Requests \/ Expiry

SpecExpiry == Init /\ [][NextExpiry]_vars

\* Booking and payment with expiring sessions and units being deleted.
DeleteAccommodation == \E u \in UnitIds : admin_delete_accommodation(u)

NextDelete == NewAccommodation \/ Requests \/ Expiry \/ DeleteAccommodation

SpecDelete == Init /\ [][NextDelete]_vars

\* The two steps of submit_review.
ReviewRequests ==
    \/ \E r \in Reqs, user \in UserIds, a \in UnitIds, v \in BOOLEAN :
         SubmitReviewCheck(r, user, a, v)
    \/ \E r \in Reqs : SubmitReviewCommit(r)

\* The favourites alone: toggle_favorite reads and writes no other table.
FavoriteRequests ==
    \/ \E r \in Reqs, user \in UserIds, a \in UnitIds :
         ToggleFavoriteRead(r, user, a)
    \/ \E r \in Reqs, fk \in BOOLEAN : ToggleFavoriteCommit(r, fk)

NextFavorite == NewAccommodation \/ FavoriteRequests

SpecFavorite == Init /\ [][NextFavorite]_vars

\* Every handler of the site but the administrator's correction.
NextSite ==
    NewAccommodation \/ Requests \/ Expiry \/ ReviewRequests
        \/ FavoriteRequests

SpecSite == Init /\ [][NextSite]_vars

\* ----------------------------------------------------------------- types
TypeOK ==
    /\ \A u \in UnitIds :
         accommodation[u].exists =>
           /\ accommodation[u].capacity \in MinCapacity..MaxCap
           /\ accommodation[u].current_occupancy \in 0..MaxOcc
           /\ accommodation[u].price_per_month \in Prices \ {0}
    /\ \A b \in BookingIds :
         /\ booking[b].exists => b <= booking_seq
         /\ booking[b].status \in {"none", "approved", "paid", "cancelled"}
    /\ booking_seq \in 0..MaxBookings

\* ------------------------------------------------------- helper predicates
\* Worker r is about to commit a settlement of a booking that is still
\* awaiting payment, and the capacity it loaded is the unit's capacity.
Settling(r) ==
    /\ req[r].pc = "ps_commit"
    /\ booking[req[r].booking_id].status = "approved"
    /\ accommodation[req[r].accommodation_id].capacity = req[r].capacity

\* Another booking of the same unit is already paid.
OtherPaid(r) ==
    \E b \in BookingIds :
        /\ b # req[r].booking_id
        /\ booking[b].status = "paid"
        /\ booking[b].accommodation_id = req[r].accommodation_id

\* An administrative correction of unit u.
EditStep(u) ==
    \E p \in Prices, c \in FormCapacities, o \in FormOccupancies :
        admin_edit_accommodation(u, p, c, o)

\* ---------------------------------------------------------------- claims

\* C1: a settlement confirmation of a booking awaiting payment never takes
\* a unit whose occupancy is within its capacity to an occupancy above it.
C1_SettlementKeepsOccupancyWithinCapacity ==
    [][\A r \in Reqs :
         LET a == req[r].accommodation_id
         IN  (/\ Settling(r)
              /\ PaymentSuccessCommit(r)
              /\ accommodation[a].current_occupancy <= accommodation[a].capacity)
             => accommodation'[a].current_occupancy <= accommodation'[a].capacity
      ]_vars

\* C2: two confirmations for the last slot of a unit, one per booking, both
\* having read occupancy C-1: the one that commits second finds the slot
\* taken, its booking ends cancelled, the first stays paid, occupancy is C.
C2_LastSlotExactlyOnePaid ==
    [][\A r \in Reqs :
         LET a == req[r].accommodation_id
             b == req[r].booking_id
         IN  (/\ Settling(r)
              /\ OtherPaid(r)
              /\ req[r].current_occupancy = req[r].capacity - 1
              /\ accommodation[a].current_occupancy = accommodation[a].capacity
              /\ PaymentSuccessCommit(r))
             => /\ booking'[b].status = "cancelled"
                /\ accommodation'[a].current_occupancy = accommodation[a].capacity
                /\ PaymentSuccessCommitResponse(r) = "capacity_exceeded"
      ]_vars

\* C3: a confirmation committed for a booking that is already paid leaves
\* the booking paid and the unit's occupancy and is_active as they were.
C3_ReconcilePaidIsNoOp ==
    [][\A r \in Reqs :
         (/\ req[r].pc = "ps_commit"
          /\ booking[req[r].booking_id].status = "paid"
          /\ PaymentSuccessCommit(r))
         => /\ booking'[req[r].booking_id].status = "paid"
            /\ accommodation' = accommodation
      ]_vars

\* C4: a booking becomes paid only from the awaiting-payment state (status
\* approved, reference set); a cancelled booking never becomes paid.
C4_PaidOnlyFromAwaitingPayment ==
    [][\A b \in BookingIds :
         (booking'[b].status = "paid" /\ booking[b].status # "paid")
         => /\ booking[b].status = "approved"
            /\ booking[b].stripe_session_id # NoSession
      ]_vars

\* C5: a booking becomes paid only in a step in which the provider reports
\* the session of the booking's stored reference as paid; a payment_success
\* request goes on to its write only for a session the provider reports
\* paid, and changes nothing before; and a request (a step that moves a
\* worker, which no administrative step does) changes the occupancy of a
\* unit only while marking paid a booking of that unit whose session the
\* provider reports paid.
C5_PaidOnlyOnProviderPaid ==
    [][/\ \A b \in BookingIds :
            (booking'[b].status = "paid" /\ booking[b].status # "paid")
            => /\ booking[b].stripe_session_id # NoSession
               /\ stripe_session[booking[b].stripe_session_id] = "paid"
       /\ \A r \in Reqs :
            (req[r].pc = "idle" /\ req'[r].pc = "ps_commit")
            => /\ req'[r].session_id # NoSession
               /\ stripe_session[req'[r].session_id] = "paid"
               /\ UNCHANGED <<booking, accommodation>>
       /\ \A u \in UnitIds :
            (/\ accommodation[u].exists
             /\ accommodation'[u].current_occupancy
                    # accommodation[u].current_occupancy
             /\ req' # req)
            => \E b \in BookingIds :
                 /\ booking[b].accommodation_id = u
                 /\ booking[b].stripe_session_id # NoSession
                 /\ stripe_session[booking[b].stripe_session_id] = "paid"
                 /\ booking'[b].status = "paid"
      ]_vars

\* C5 witness: a settlement has marked a booking paid.
C5_Witness ==
    \E b \in BookingIds :
        /\ booking[b].status = "paid"
        /\ stripe_session[booking[b].stripe_session_id] = "paid"

\* C6: a confirmation for a booking awaiting payment whose unit has already
\* been filled by another booking ends with the booking cancelled, the
\* occupancy not incremented and CapacityExceeded as the answer.
C6_FullUnitCancelsBooking ==
    [][\A r \in Reqs :
         LET a == req[r].accommodation_id
             b == req[r].booking_id
         IN  (/\ Settling(r)
              /\ OtherPaid(r)
              /\ req[r].current_occupancy >= req[r].capacity
              /\ accommodation[a].current_occupancy >= accommodation[a].capacity
              /\ PaymentSuccessCommit(r))
             => /\ booking'[b].status = "cancelled"
                /\ accommodation'[a].current_occupancy
                       = accommodation[a].current_occupancy
                /\ PaymentSuccessCommitResponse(r) = "capacity_exceeded"
      ]_vars

\* C7: the number of paid bookings of a unit never exceeds its capacity.
C7_PaidBookingsWithinCapacity ==
    \A u \in UnitIds :
        accommodation[u].exists
        => Cardinality(PaidBookings(u)) <= accommodation[u].capacity

\* C8: a unit is inactive exactly when its occupancy has reached capacity.
C8_InactiveIffFull ==
    \A u \in UnitIds :
        accommodation[u].exists
        => (accommodation[u].is_active = FALSE <=> is_full(accommodation[u]))

\* C9: outside administrative corrections, every step keeps occupancy
\* minus the number of paid bookings of each unit the same (so occupancy is
\* the initial occupancy plus the number of paid bookings).
C9_OccupancyCountsPaidBookings ==
    [][\A u \in UnitIds :
         (accommodation[u].exists /\ ~EditStep(u))
         => accommodation'[u].current_occupancy - Cardinality(PaidBookings(u)')
              = accommodation[u].current_occupancy - Cardinality(PaidBookings(u))
      ]_vars

\* C10: a booking becomes cancelled only from the approved state, a
\* cancelled booking stays cancelled, and a paid booking stays paid.
C10_CancelOnlyOpenBookings ==
    [][\A b \in BookingIds :
         /\ (booking'[b].status = "cancelled" /\ booking[b].status # "cancelled")
            => booking[b].status = "approved"
         /\ booking[b].status = "paid" => booking'[b].status = "paid"
         /\ \A r \in Reqs :
              (PaymentCancelRead(r, b) /\ booking[b].status = "cancelled")
              => /\ UNCHANGED <<booking, req>>
                 /\ PaymentCancelReadResponse(b) = "payment_cancelled"
      ]_vars

\* C11: when payment_success is called with the reference of a booking that
\* awaits payment and the provider reports the session as failed (expired),
\* the request cannot end with the booking in any status but cancelled.
C11_FailedSessionCancelsBooking ==
    \A r \in Reqs, b \in BookingIds :
        LET s == booking[b].stripe_session_id
        IN  (/\ Free(r)
             /\ booking[b].exists
             /\ booking[b].status = "approved"
             /\ s # NoSession
             /\ stripe_session[s] = "expired")
            => ~ENABLED (/\ PaymentSuccessLoad(r, s, TRUE)
                         /\ booking'[b].status # "cancelled")

\* C12: a booking that is 'approved' and has no payment reference belongs to
\* a book request that is still between its INSERT and the provider's answer:
\* once book has returned, its booking carries a reference or is gone.
C12_NoApprovedBookingWithoutReference ==
    \A b \in BookingIds :
        (/\ booking[b].exists
         /\ booking[b].status = "approved"
         /\ booking[b].stripe_session_id = NoSession)
        => \E r \in Reqs : req[r].pc = "book_stripe" /\ req[r].booking_id = b

\* A book request whose provider call failed has returned: the row it had
\* inserted is gone, and the unit has no booking at all.
C12_Witness ==
    /\ booking_seq >= 1
    /\ \A b \in BookingIds : ~booking[b].exists
    /\ \A r \in Reqs : req[r].pc = "idle"

\* C13: a book request whose total price (monthly price times the months of
\* its duration) is below the minimum charge can only end rejected: no
\* booking row is created, the request does not go on to the provider, no
\* session is opened, and the answer is one of the two refusals.
C13_LowPriceRejected ==
    \A r \in Reqs, user \in UserIds, a \in UnitIds, d \in Durations :
        (/\ Free(r)
         /\ accommodation[a].exists
         /\ accommodation[a].price_per_month
              * (IF d = "annual" THEN AnnualMonths ELSE SemesterMonths)
              < MinChargeCents)
        => /\ ~ENABLED (/\ BookCreate(r, user, a, d)
                        /\ \/ booking' # booking
                           \/ booking_seq' # booking_seq
                           \/ stripe_session' # stripe_session
                           \/ req'[r].pc # "idle")
           /\ BookCreateResponse(a, d) \in {"invalid_amount", "fully_booked"}

\* A unit with a free slot whose semester price is below the minimum charge,
\* a free worker to take the request, and still no booking row.
C13_Witness ==
    \E a \in UnitIds :
        /\ accommodation[a].exists
        /\ accommodation[a].current_occupancy < accommodation[a].capacity
        /\ accommodation[a].price_per_month * SemesterMonths < MinChargeCents
        /\ \A r \in Reqs : req[r].pc = "idle"
        /\ booking_seq = 0

\* C14: the pre-check of book lets a request through exactly when
\* current_occupancy < capacity, and changes no unit: on a full unit the
\* request can only end rejected as fully booked, with no booking row, no
\* session and no worker left at the provider call; on a unit with a free
\* slot a request with a chargeable price and a duration creates its booking.
C14_PreCheckIffFreeSlot ==
    \A r \in Reqs, user \in UserIds, a \in UnitIds, d \in Durations :
        (Free(r) /\ accommodation[a].exists)
        => /\ ~ENABLED (BookCreate(r, user, a, d)
                        /\ accommodation' # accommodation)
           /\ accommodation[a].current_occupancy >= accommodation[a].capacity
              => /\ ~ENABLED (/\ BookCreate(r, user, a, d)
                              /\ \/ booking' # booking
                                 \/ booking_seq' # booking_seq
                                 \/ stripe_session' # stripe_session
                                 \/ req'[r].pc # "idle")
                 /\ BookCreateResponse(a, d) = "fully_booked"
           /\ accommodation[a].current_occupancy < accommodation[a].capacity
              => /\ BookCreateResponse(a, d) # "fully_booked"
                 /\ (/\ accommodation[a].price_per_month >= MinChargeCents
                      /\ d # "none"
                      /\ booking_seq < MaxBookings)
                    => ENABLED (/\ BookCreate(r, user, a, d)
                                /\ booking_seq' = booking_seq + 1)

\* A settlement has filled the last slot of a unit, and a worker is free to
\* take the next book request.
C14_Witness ==
    \E a \in UnitIds, b \in BookingIds :
        /\ accommodation[a].exists
        /\ accommodation[a].current_occupancy = accommodation[a].capacity
        /\ booking[b].status = "paid"
        /\ booking[b].accommodation_id = a
        /\ booking_seq < MaxBookings
        /\ \A r \in Reqs : req[r].pc = "idle"

C16_CanReviewOneShot ==
    [][\A user \in UserIds, a \in UnitIds :
         LET paid == \E b \in PaidBookings(a) : booking[b].user_id = user
             reviewed == review[<<user, a>>] > 0
         IN  /\ ~paid => ~can_review(user, a)
             /\ (paid /\ ~reviewed) => can_review(user, a)
             /\ reviewed => ~can_review(user, a)
             /\ ~paid' => ~can_review(user, a)'
             /\ (paid' /\ ~reviewed') => can_review(user, a)'
             /\ reviewed' => ~can_review(user, a)'
             /\ reviewed => reviewed'
      ]_vars

\* A user with a paid booking has submitted the review of the unit.
C16_Witness ==
    \E user \in UserIds, a \in UnitIds :
        /\ review[<<user, a>>] = 1
        /\ \E b \in PaidBookings(a) : booking[b].user_id = user
        /\ \A r \in Reqs : req[r].pc = "idle"

\* C17: whatever the interleaving of submit_review requests, a pair (user,
\* unit) never has more than one review, a review is only ever inserted in a
\* state in which that user has a paid booking of the unit, and the request
\* that loses the race for the unique pair inserts nothing and answers with
\* a failure.
C17_ReviewsUniqueAndEligible ==
    [][\A user \in UserIds, a \in UnitIds :
         LET p == <<user, a>>
         IN  /\ review'[p] <= 1
             /\ review'[p] > review[p]
                => \E b \in PaidBookings(a) : booking[b].user_id = user
             /\ \A r \in Reqs :
                  (/\ SubmitReviewCommit(r)
                   /\ req[r].user_id = user
                   /\ req[r].accommodation_id = a
                   /\ review[p] > 0)
                  => /\ review'[p] = review[p]
                     /\ SubmitReviewCommitResponse(r) = "failed_to_submit"
      ]_vars

\* C18: a toggle_favorite call on an existing unit that commits on what it
\* read (no other toggle of the pair got in between, as with two calls one
\* after the other) flips the membership and reports "added" when the row
\* was absent and "removed" when it was there, so the second of two
\* consecutive calls undoes the first; and a pair never has two rows.
C18_ToggleRoundTrip ==
    [][/\ \A r \in Reqs, fk \in BOOLEAN :
            LET p == <<req[r].user_id, req[r].accommodation_id>>
            IN  (/\ ToggleFavoriteCommit(r, fk)
                 /\ accommodation[p[2]].exists
                 /\ (req[r].pc = "fav_insert") = (favorite[p] = 0))
                => /\ favorite'[p] = 1 - favorite[p]
                   /\ ToggleFavoriteCommitResponse(r, fk)
                        = IF favorite[p] = 0 THEN "added" ELSE "removed"
       /\ \A p \in UserIds \X UnitIds : favorite'[p] \in {0, 1}
      ]_vars

\* The first of two calls has added the unit to the user's favourites and
\* has returned; no toggle is in flight.
C18_Witness ==
    \E p \in UserIds \X UnitIds :
        /\ accommodation[p[2]].exists
        /\ favorite[p] = 1
        /\ \A r \in Reqs : req[r].pc = "idle"

\* C19: when two toggles of a pair have both read that no Favorite exists,
\* the one whose INSERT hits the unique constraint leaves a single row and
\* still reports "added" or "removed", not an error.
C19_LostToggleRaceReportsState ==
    [][\A r \in Reqs, fk \in BOOLEAN :
         LET p == <<req[r].user_id, req[r].accommodation_id>>
         IN  (/\ ToggleFavoriteCommit(r, fk)
              /\ req[r].pc = "fav_insert"
              /\ accommodation[p[2]].exists
              /\ favorite[p] > 0)
             => /\ favorite'[p] <= 1
                /\ ToggleFavoriteCommitResponse(r, fk) \in {"added", "removed"}
      ]_vars

\* C20: the current_occupancy of an existing unit changes only in the commit
\* of a payment_success that settles a booking of that unit (the booking was
\* not paid and becomes paid, on a session the provider reports paid); every
\* other step of book, payment_success, payment_cancel, submit_review and
\* toggle_favorite leaves it as it was, and a step that cancels a booking does
\* not lower it.  (admin_edit_accommodation, the administrator's correction,
\* is not among the steps taken here.)
C20_OccupancyChangedOnlyBySettlement ==
    [][\A u \in UnitIds :
         accommodation[u].exists
         => /\ accommodation'[u].current_occupancy
                 # accommodation[u].current_occupancy
               => \E r \in Reqs :
                     /\ PaymentSuccessCommit(r)
                     /\ req[r].accommodation_id = u
                     /\ booking[req[r].booking_id].status # "paid"
                     /\ booking'[req[r].booking_id].status = "paid"
                     /\ SessionPaid(req[r].session_id)
            /\ (\E b \in BookingIds :
                    /\ booking[b].accommodation_id = u
                    /\ booking[b].status # "cancelled"
                    /\ booking'[b].status = "cancelled")
               => accommodation'[u].current_occupancy
                    = accommodation[u].current_occupancy
      ]_vars

C22_FailedOperationsKeepBookingState ==
    [][/\ \A b \in BookingIds :
            booking'[b].exists
            => booking'[b].status \in {"approved", "paid", "cancelled"}
       /\ \A r \in Reqs :
            LET b == req[r].booking_id
            IN  /\ (/\ (PaymentSuccessCommit(r) \/ PaymentCancelCommit(r))
                     /\ booking[b].exists
                     /\ booking[b].status # "approved")
                    => \/ booking'[b] = booking[b]
                       \/ booking'[b].status = "cancelled"
                /\ (/\ (PaymentSuccessCommit(r) \/ PaymentCancelCommit(r))
                     /\ ~booking[b].exists)
                    => UNCHANGED <<booking, accommodation>>
                /\ (BookStripe(r, FALSE))
                    => /\ booking'[b] = NoBooking
                       /\ \A c \in BookingIds \ {b} : booking'[c] = booking[c]
      ]_vars

\* C23: a checkout session is opened only by the book request of a booking
\* that was committed before, with no database transaction open in that
\* request while the provider is called; it is opened once per booking (a
\* booking whose session exists has no book request left at the provider
\* call); and a booking carries a payment reference only once the session
\* of that reference exists.
C23_SessionOpenedAfterCommit ==
    [][/\ \A s \in SessionIds :
            (stripe_session[s] = "none" /\ stripe_session'[s] # "none")
            => /\ s <= booking_seq
               /\ booking[s].exists => booking[s].stripe_session_id = NoSession
               /\ \E r \in Reqs :
                    /\ req[r].pc = "book_stripe"
                    /\ req[r].booking_id = s
                    /\ ~req[r].in_transaction
       /\ \A s \in SessionIds :
            stripe_session'[s] # "none"
            => \A r \in Reqs :
                 ~(req'[r].pc = "book_stripe" /\ req'[r].booking_id = s)
       /\ \A b \in BookingIds :
            (booking'[b].exists /\ booking'[b].stripe_session_id # NoSession)
            => stripe_session'[booking'[b].stripe_session_id] # "none"
      ]_vars

\* C24: a step of admin_new_accommodation or admin_edit_accommodation that
\* writes a unit leaves it with capacity >= 1 and
\* 0 <= current_occupancy <= capacity.
C24_AdminKeepsOccupancyWithinCapacity ==
    [][\A u \in UnitIds :
         (/\ accommodation'[u] # accommodation[u]
          /\ accommodation'[u].exists
          /\ UNCHANGED <<booking, req>>)
         => /\ accommodation'[u].capacity >= 1
            /\ accommodation'[u].current_occupancy >= 0
            /\ accommodation'[u].current_occupancy <= accommodation'[u].capacity
      ]_vars

\* ------------------------------------------------------------ user table
\* User.set_password / User.check_password: the hash is kept as the pair of
\* the scheme and the password it was made from.
set_password(password) == <<"pbkdf2", password>>

check_password(password_hash, password) ==
    password_hash = set_password(password)

\* User.query.filter_by(email=...).first()
UserByEmail(email) ==
    {u \in AccountIds : users[u].exists /\ users[u].email = email}

\* The INSERT of a user row fails on the unique columns email and
\* student_number (id_number, unique as well, always goes with
\* student_number here).
UserInsertFails_NoUnique(row) == FALSE

UserInsertFails(row) ==
    \E u \in AccountIds :
        /\ users[u].exists
        /\ \/ users[u].email = row.email
           \/ users[u].student_number = row.student_number

\* The primary key the database gives the next row.
NextUserId ==
    CHOOSE u \in AccountIds :
        /\ ~users[u].exists
        /\ \A v \in AccountIds : v < u => users[v].exists

AdminRow ==
    [exists |-> TRUE, email |-> ADMIN_EMAIL,
     student_number |-> ADMIN_STUDENT_NUMBER,
     password_hash |-> set_password(admin_password), is_admin |-> TRUE]

\* create_tables, up to the first commit of seed_admin: the first request(s)
\* of a process find no tables_created attribute and run seed_admin, which
\* looks the administrator up.  A run that finds it with the configured
\* password is over at once.
seed_admin(r) ==
    /\ Free(r)
    /\ ~tables_created
    /\ IF UserByEmail(ADMIN_EMAIL) = {}
       THEN /\ req' = [req EXCEPT ![r] =
                  [Idle EXCEPT !.in_transaction = TRUE, !.pc = "seed_insert"]]
            /\ UNCHANGED tables_created
       ELSE LET admin == CHOOSE u \in UserByEmail(ADMIN_EMAIL) : TRUE IN
            IF ~check_password(users[admin].password_hash, admin_password)
            THEN /\ req' = [req EXCEPT ![r] =
                       [Idle EXCEPT !.in_transaction = TRUE,
                                    !.pc = "seed_password",
                                    !.user_id = admin]]
                 /\ UNCHANGED tables_created
            ELSE /\ tables_created' = TRUE
                 /\ UNCHANGED req
    /\ UNCHANGED <<accommodation, booking, booking_seq, stripe_session,
                   review, favorite, users, admin_password>>

\* db.session.add(admin); db.session.commit() of seed_admin.  A violated
\* unique constraint raises inside seed_admin, which rolls back; create_tables
\* goes on and sets tables_created.
seed_admin_insert(r) ==
    /\ req[r].pc = "seed_insert"
    /\ users' = IF UserInsertFails(AdminRow) THEN users
                ELSE [users EXCEPT ![NextUserId] = AdminRow]
    /\ req' = [req EXCEPT ![r] = Idle]
    /\ tables_created' = TRUE
    /\ UNCHANGED <<accommodation, booking, booking_seq, stripe_session,
                   review, favorite, admin_password>>

\* admin.set_password(...); db.session.commit() of seed_admin: an UPDATE of
\* password_hash of the row that was loaded.
seed_admin_password(r) ==
    /\ req[r].pc = "seed_password"
    /\ users' = [users EXCEPT ![req[r].user_id].password_hash =
                                  set_password(admin_password)]
    /\ req' = [req EXCEPT ![r] = Idle]
    /\ tables_created' = TRUE
    /\ UNCHANGED <<accommodation, booking, booking_seq, stripe_session,
                   review, favorite, admin_password>>

\* A new server process: its app object has no tables_created attribute and
\* it reads ADMIN_PASSWORD from its environment.
Restart(password) ==
    /\ \A r \in Reqs : req[r].pc = "idle"
    /\ tables_created
    /\ tables_created' = FALSE
    /\ admin_password' = password
    /\ UNCHANGED <<accommodation, booking, booking_seq, stripe_session, req,
                   review, favorite, users>>

\* register: the form's validators and the unique constraints refuse a
\* taken e-mail or student number; the row is stored with is_admin at its
\* default.
register(email, student_number) ==
    /\ tables_created
    /\ \E u \in AccountIds : ~users[u].exists
    /\ LET row == [exists |-> TRUE, email |-> email,
                   student_number |-> student_number,
                   password_hash |-> set_password(UserPassword),
                   is_admin |-> FALSE] IN
       /\ ~UserInsertFails(row)
       /\ users' = [users EXCEPT ![NextUserId] = row]
    /\ UNCHANGED <<accommodation, booking, booking_seq, stripe_session, req,
                   review, favorite, tables_created, admin_password>>

\* admin_promote_user up to the commit: current_user is loaded and must be
\* an administrator, the target must exist (get_or_404) and must not be
\* current_user.
admin_promote_user_load(r, current_user, id) ==
    /\ Free(r)
    /\ tables_created
    /\ users[current_user].exists
    /\ users[current_user].is_admin
    /\ users[id].exists
    /\ id # current_user
    /\ req' = [req EXCEPT ![r] =
           [Idle EXCEPT !.in_transaction = TRUE, !.pc = "promote_commit",
                        !.user_id = id]]
    /\ UNCHANGED <<accommodation, booking, booking_seq, stripe_session,
                   review, favorite, users, tables_created, admin_password>>

\* user.is_admin = True; db.session.commit()
admin_promote_user_commit(r) ==
    /\ req[r].pc = "promote_commit"
    /\ users' = [users EXCEPT ![req[r].user_id].is_admin = TRUE]
    /\ req' = [req EXCEPT ![r] = Idle]
    /\ UNCHANGED <<accommodation, booking, booking_seq, stripe_session,
                   review, favorite, tables_created, admin_password>>

\* admin_demote_user up to the commit: the same checks as admin_promote_user.
admin_demote_user_load(r, current_user, id) ==
    /\ Free(r)
    /\ tables_created
    /\ users[current_user].exists
    /\ users[current_user].is_admin
    /\ users[id].exists
    /\ id # current_user
    /\ req' = [req EXCEPT ![r] =
           [Idle EXCEPT !.in_transaction = TRUE, !.pc = "demote_commit",
                        !.user_id = id]]
    /\ UNCHANGED <<accommodation, booking, booking_seq, stripe_session,
                   review, favorite, users, tables_created, admin_password>>

\* user.is_admin = False; db.session.commit()
admin_demote_user_commit(r) ==
    /\ req[r].pc = "demote_commit"
    /\ users' = [users EXCEPT ![req[r].user_id].is_admin = FALSE]
    /\ req' = [req EXCEPT ![r] = Idle]
    /\ UNCHANGED <<accommodation, booking, booking_seq, stripe_session,
                   review, favorite, tables_created, admin_password>>

SeedAdmin ==
    \E r \in Reqs : seed_admin(r) \/ seed_admin_insert(r) \/ seed_admin_password(r)

Restarts == \E password \in AdminPasswords : Restart(password)

Register ==
    \E email \in Emails, student_number \in StudentNumbers :
        register(email, student_number)

PromoteUser ==
    \E r \in Reqs :
        \/ \E current_user, id \in AccountIds :
               admin_promote_user_load(r, current_user, id)
        \/ admin_promote_user_commit(r)

DemoteUser ==
    \E r \in Reqs :
        \/ \E current_user, id \in AccountIds :
               admin_demote_user_load(r, current_user, id)
        \/ admin_demote_user_commit(r)

NextUsers == SeedAdmin \/ Restarts \/ Register \/ PromoteUser \/ DemoteUser

SpecUsers == Init /\ [][NextUsers]_vars

\* The user rows with the configured admin e-mail.
AdminEmailUsers == UserByEmail(ADMIN_EMAIL)

\* The administrators.
Admins == {u \in AccountIds : users[u].exists /\ users[u].is_admin}

\* C25: seed_admin can run any number of times, concurrently too.  At most
\* one user ever has the configured admin e-mail and exactly one has it
\* when a run of seed_admin ends; a run that finds that user changes no row
\* when it looks it up, and its commit changes nothing but the password_hash
\* of that user, which becomes the hash of the configured password.
C25_SeedAdminRunsAreSafe ==
    [][/\ Cardinality(AdminEmailUsers') <= 1
       /\ \A r \in Reqs :
            /\ (\/ req[r].pc \in {"seed_insert", "seed_password"}
                   /\ req'[r].pc = "idle"
                \/ ~tables_created /\ tables_created')
               => Cardinality(AdminEmailUsers') = 1
            /\ (\/ ~tables_created /\ tables_created' /\ req' = req
                \/ req[r].pc = "idle" /\ req'[r].pc = "seed_password")
               => users' = users
            /\ (req[r].pc = "seed_password" /\ req'[r].pc = "idle")
               => /\ req[r].user_id \in AdminEmailUsers
                  /\ users' = [users EXCEPT ![req[r].user_id].password_hash =
                                               set_password(admin_password)]
      ]_vars

\* A run of seed_admin that found the administrator with another password
\* is about to commit, while a concurrent run has already stored the
\* configured password.
C25_Witness ==
    \E r \in Reqs :
        /\ req[r].pc = "seed_password"
        /\ tables_created
        /\ check_password(users[req[r].user_id].password_hash, admin_password)
        /\ admin_password # "admin123"

\* C26: once a user with is_admin exists, every step leaves at least one
\* user with is_admin.
C26_AnAdminAlwaysRemains ==
    [][Admins # {} => Admins' # {}]_vars

====
